---- MODULE Spec2Model ----
(***************************************************************************)
(* The chat panel (AIChatView, src/src/ChatView.ts) and the stream adapter *)
(* (AgentService, src/src/main.ts) of obsidian-ai-agent as one state       *)
(* machine.  JavaScript runs one task at a time: a handler runs to its     *)
(* next await, and the continuations of resolved promises (microtasks) run *)
(* before the next user-interface event.  Every action below is one such   *)
(* run-to-await piece of a handler.                                        *)
(***************************************************************************)
EXTENDS Integers, Sequences, FiniteSets, TLC

\* ------------------------------------------------------------------ bounds
MaxExecs == 2      \* AgentService.execute calls started in one behaviour
MaxEvents == 2     \* backend stream events read in one behaviour
MaxStreamExecs == 1    \* the same two bounds in the stream specification
MaxStreamEvents == 3
MaxSignalExecs == 2
MaxSignalEvents == 2
MaxExportLen == 3
MaxSaves == 1
MaxSettingsExecs == 2
MaxSettingsEvents == 1
MaxFileExecs == 2
MaxFileEvents == 1

\* ------------------------------------------------------------ basic values
Null == "null"                  \* null / undefined / '' (all falsy)
Placeholder == "session-ts"     \* `session-${Date.now()}`
SessionIds == {"A", "B"}        \* session ids the backend hands out
NoCtrl == 0                     \* currentAbortController === null

\* a || b on string-or-null values
Or(a, b) == IF a # Null THEN a ELSE b

\* The texts a user can have in the input field: sequences of characters.
Prompts == {<<>>, <<" ">>, <<" ", "a">>}

RECURSIVE TrimStart(_)
TrimStart(s) == IF s # <<>> /\ Head(s) = " " THEN TrimStart(Tail(s)) ELSE s

RECURSIVE TrimEnd(_)
TrimEnd(s) ==
    IF s # <<>> /\ s[Len(s)] = " " THEN TrimEnd(SubSeq(s, 1, Len(s) - 1)) ELSE s

\* Mutant of trim: the text is taken as typed.
trim_identity(s) == s

\* String.prototype.trim
trim(s) == TrimEnd(TrimStart(s))

\* ------------------------------------------------------------ SDK events
\* An SDKMessage.  message is <<>> (no payload) or <<content>>; result is Null
\* or a text.
SDKEvent(t, st, sid, m, r) ==
    [type |-> t, subtype |-> st, session_id |-> sid, message |-> m, result |-> r]

Content == <<"h", "i">>         \* the content of a payload

\* The events of the controller specification: an init event for each
\* session id and one without, and an assistant message.
ControllerEvents ==
    {SDKEvent("system", "init", sid, <<>>, Null) : sid \in SessionIds \cup {Null}}
    \cup {SDKEvent("assistant", Null, Null, <<Content>>, Null)}

\* The events of the stream specification: every type of the protocol and
\* one outside it, with and without the fields convertSDKMessage reads.
StreamEvents ==
    {SDKEvent("system", "init", sid, <<>>, Null) : sid \in SessionIds \cup {Null}}
    \cup {SDKEvent("system", Null, Null, <<>>, Null),
          SDKEvent("assistant", Null, Null, <<Content>>, Null),
          SDKEvent("assistant", Null, "A", <<>>, Null),
          SDKEvent("user", Null, Null, <<Content>>, Null),
          SDKEvent("user", Null, Null, <<>>, Null),
          SDKEvent("result", Null, Null, <<>>, "done"),
          SDKEvent("result", "error", "B", <<>>, Null),
          SDKEvent("stream_event", Null, Null, <<Content>>, Null)}

\* ------------------------------------------------------------ ChatMessage
\* message is <<>> (absent) or <<content>>.
\* uuid is <<creating execute call (0: the view), index>>: the code builds
\* it from the clock and a random number, the model from its provenance.
ChatMessage(t, st, sid, m, r, ui, uuid) ==
    [type |-> t, subtype |-> st, session_id |-> sid, message |-> m,
     result |-> r, isUserInput |-> ui, uuid |-> uuid]

\* Mutant of convertSDKMessage: user events produce no message.
convertSDKMessage_dropsUser(sdkMessage, sessionId, uuid) ==
    LET base == Or(sdkMessage.session_id, Or(sessionId, Placeholder)) IN
    CASE sdkMessage.type = "system" /\ sdkMessage.subtype = "init" ->
           <<ChatMessage("system", "init", base, <<>>, Null, FALSE, uuid)>>
      [] sdkMessage.type = "assistant" /\ sdkMessage.message # <<>> ->
           <<ChatMessage("assistant", Null, base, sdkMessage.message,
                         Null, FALSE, uuid)>>
      [] sdkMessage.type = "result" ->
           <<ChatMessage("result", Or(sdkMessage.subtype, "success"), base,
                         <<>>, sdkMessage.result, FALSE, uuid)>>
      [] OTHER -> <<>>

\* Mutant of convertSDKMessage: a result keeps the subtype of its event,
\* absent or not, and every system event is passed on.
convertSDKMessage_noDefaults(sdkMessage, sessionId, uuid) ==
    LET base == Or(sdkMessage.session_id, Or(sessionId, Placeholder)) IN
    CASE sdkMessage.type = "system" ->
           <<ChatMessage("system", sdkMessage.subtype, base, <<>>, Null,
                         FALSE, uuid)>>
      [] sdkMessage.type \in {"assistant", "user"} /\ sdkMessage.message # <<>> ->
           <<ChatMessage(sdkMessage.type, Null, base, sdkMessage.message,
                         Null, FALSE, uuid)>>
      [] sdkMessage.type = "result" ->
           <<ChatMessage("result", sdkMessage.subtype, base,
                         <<>>, sdkMessage.result, FALSE, uuid)>>
      [] OTHER -> <<>>

\* MessageFactory.convertSDKMessage: <<>> stands for null (no message).
convertSDKMessage(sdkMessage, sessionId, uuid) ==
    LET base == Or(sdkMessage.session_id, Or(sessionId, Placeholder)) IN
    CASE sdkMessage.type = "system" ->
           IF sdkMessage.subtype = "init"
           THEN <<ChatMessage("system", "init", Or(sdkMessage.session_id, base),
                              <<>>, Null, FALSE, uuid)>>
           ELSE <<>>
      [] sdkMessage.type = "assistant" ->
           IF sdkMessage.message # <<>>
           THEN <<ChatMessage("assistant", Null, base, sdkMessage.message,
                              Null, FALSE, uuid)>>
           ELSE <<>>
      [] sdkMessage.type = "user" ->
           IF sdkMessage.message # <<>>
           THEN <<ChatMessage("user", Null, base, sdkMessage.message,
                              Null, FALSE, uuid)>>
           ELSE <<>>
      [] sdkMessage.type = "result" ->
           <<ChatMessage("result", Or(sdkMessage.subtype, "success"), base,
                         <<>>, sdkMessage.result, FALSE, uuid)>>
      [] OTHER -> <<>>

\* MessageFactory.createUserInputMessage
createUserInputMessage(messageText, sessionId) ==
    ChatMessage("user", Null, Or(sessionId, Placeholder), <<messageText>>,
                Null, TRUE, <<0, 0>>)

\* MessageFactory.createCancelMessage
createCancelMessage(sessionId, uuid) ==
    ChatMessage("system", Null, Or(sessionId, Placeholder), <<>>, "cancelled",
                FALSE, uuid)

\* MessageFactory.createErrorMessage
createErrorMessage(sessionId) ==
    ChatMessage("system", Null, Or(sessionId, Placeholder), <<>>, "error",
                FALSE, <<0, 0>>)

\* ------------------------------------------------------------------ state
VARIABLES
    messages,                \* AIChatView.messages
    currentSessionId,        \* AIChatView.currentSessionId
    isProcessing,            \* AIChatView.isProcessing
    viewOpen,                \* the panel is open (onOpen ran, onClose did not)
    pending,                 \* handleSendMessage calls awaiting buildFinalMessage
    execs,                   \* the AgentService.execute calls, in start order
    currentAbortController,  \* AgentService.currentAbortController (NoCtrl: null)
    abortedCtrls,            \* the AbortControllers whose signal is aborted
    lastQuery,               \* the arguments of the last query() call
    eventsRead,              \* history: the stream events read so far
    signals,                 \* options.signal of each execute call, in start order
    vault,                   \* the vault as saveConversation uses it, and its calls
    settings,                \* AgentService.settings (apiKey; "" is unset)
    processEnv,              \* process.env (ANTHROPIC_API_KEY; "" is unset)
    lastOp                   \* history: the last handler piece that ran

view == <<messages, currentSessionId, isProcessing, viewOpen>>
adapter == <<execs, currentAbortController, abortedCtrls, lastQuery, eventsRead>>
vars == <<messages, currentSessionId, isProcessing, viewOpen,
          pending, execs, currentAbortController, abortedCtrls, lastQuery,
          eventsRead, signals, vault, settings, processEnv, lastOp>>

\* The vault: whether the save folder exists, the files created (data, and
\* as history the list they were made from), and where each running
\* saveConversation call stands ("createFolder" or "create", with the
\* markdown it is about to write).
Vault(folder) == [folder |-> folder, files |-> <<>>, saves |-> <<>>, started |-> 0]

\* What kind of text a handler was given: none at all, the empty text, a
\* text of blanks only, or a text with something in it.
TextKind(s) ==
    IF s = <<>> THEN "empty"
    ELSE IF \A i \in 1..Len(s) : s[i] = " " THEN "blank" ELSE "text"

\* The history a handler leaves: its name, the kind of text it was given
\* and whether the view was processing when it was called.
Op(name, text, busy) == [op |-> name, text |-> text, busy |-> busy]

Init ==
    /\ messages = <<>>
    /\ currentSessionId = Null
    /\ isProcessing = FALSE
    /\ viewOpen = TRUE
    /\ pending = <<>>
    /\ execs = <<>>
    /\ currentAbortController = NoCtrl
    /\ abortedCtrls = {}
    /\ lastQuery = [context |-> "none", resume |-> Null]
    /\ eventsRead = 0
    /\ signals = <<>>
    /\ vault = Vault(FALSE)
    /\ settings = [apiKey |-> ""]
    /\ processEnv = [ANTHROPIC_API_KEY |-> ""]
    /\ lastOp = Op("onOpen", "none", FALSE)

\* ------------------------------------------------------- view: helpers
\* AIChatView.addMessage
addMessage(list, message) == Append(list, message)

\* What buildFinalMessage reads: the "Current page" toggle of the panel
\* (AIChatView.includeFileContext, which the user can flip before any send),
\* the settings, and what the host application answers.
FileEnv(toggle, file, content, sel, hasSel, read) ==
    [includeFileContext |-> toggle, activeFile |-> file,
     includeFileContent |-> content, includeSelection |-> sel,
     selection |-> hasSel, read |-> read]

\* The environments of the controller specification: the file's path alone
\* is wanted (no await of the vault), and the file's content is wanted and
\* the read fails (the send waits for the vault meanwhile).
FileEnvs ==
    {FileEnv(TRUE, TRUE, FALSE, FALSE, FALSE, "ok"),
     FileEnv(TRUE, TRUE, TRUE, FALSE, FALSE, "fail")}

\* Mutant of getFileContent: a failed read is taken for a read.
getFileContent_ignoresFailure(env) == "content"

\* AIChatView.getFileContent: the content, or Null when vault.read throws.
getFileContent(env) == IF env.read = "ok" THEN "content" ELSE Null

\* AIChatView.buildFinalMessage: the context put before the text, whether
\* the call awaited vault.read (real I/O, so other handlers run meanwhile),
\* and how that read ended.
buildFinalMessage(env) ==
    IF ~env.includeFileContext \/ ~env.activeFile
    THEN [context |-> "none", io |-> FALSE, read |-> "none"]
    ELSE IF ~env.includeFileContent
    THEN [context |-> "path", io |-> FALSE, read |-> "none"]
    ELSE IF env.includeSelection /\ env.selection
    THEN [context |-> "path+selection", io |-> FALSE, read |-> "none"]
    ELSE [context |-> IF getFileContent(env) # Null THEN "path+content" ELSE "path",
          io |-> TRUE, read |-> env.read]

\* An execute call that has started and has not resolved.
InFlight(e) == execs[e].pc \in {"streaming", "closing"}

\* No continuation of a resolved promise is waiting: the event loop can take
\* a user-interface event.
MicrotasksDrained ==
    /\ \A e \in 1..Len(execs) : execs[e].pc # "returned"
    /\ \A i \in 1..Len(pending) : pending[i].io

UIReady == viewOpen /\ MicrotasksDrained

\* ------------------------------------------------------- adapter: helpers
\* AgentService.cancel
cancel ==
    abortedCtrls' = IF currentAbortController # NoCtrl
                    THEN abortedCtrls \cup {currentAbortController}
                    ELSE abortedCtrls

\* this.currentAbortController?.signal.aborted
signalAborted ==
    currentAbortController # NoCtrl /\ currentAbortController \in abortedCtrls

\* Mutant of nextActiveSessionId: the first session id known to the call
\* is kept.
nextActiveSessionId_firstWins(sdkMessage, activeSessionId) ==
    IF sdkMessage.type = "system" /\ sdkMessage.subtype = "init"
       /\ activeSessionId = Null
    THEN sdkMessage.session_id
    ELSE activeSessionId

\* execute: the session id kept after reading sdkMessage
nextActiveSessionId(sdkMessage, activeSessionId) ==
    IF sdkMessage.type = "system" /\ sdkMessage.subtype = "init"
    THEN Or(sdkMessage.session_id, activeSessionId)
    ELSE activeSessionId

\* Mutant of onMessageSessionId: an init message is adopted only while the
\* view has no session id.
onMessageSessionId_firstWins(message, sessionId) ==
    IF message.type = "system" /\ message.subtype = "init"
       /\ message.session_id # Null /\ sessionId = Null
    THEN message.session_id
    ELSE sessionId

\* executeCommand's onMessage: the view's session id after the message
onMessageSessionId(message, sessionId) ==
    IF message.type = "system" /\ message.subtype = "init"
       /\ message.session_id # Null
    THEN message.session_id
    ELSE sessionId

\* Mutant of buildQueryOptions: no call resumes a session.
buildQueryOptions_neverResumes(sessionId) == Null

\* AgentService.buildQueryOptions: the resume directive
buildQueryOptions(sessionId) == IF sessionId # Null THEN sessionId ELSE Null

\* ------------------------------------------------------- view: handlers
\* AIChatView.handleSendMessage up to its await of buildFinalMessage.
handleSendMessage(value, env) ==
    LET messageText == trim(value)
        built == buildFinalMessage(env)
    IN  /\ pending' =
              IF messageText = <<>> \/ isProcessing
              THEN pending
              ELSE Append(pending, [messageText |-> messageText,
                                    context |-> built.context, io |-> built.io,
                                    read |-> built.read])
        /\ UNCHANGED <<view, adapter>>

\* Mutant of cancelExecution: the view stays busy until the adapter returns.
cancelExecution_staysBusy ==
    /\ cancel
    /\ messages' = addMessage(messages, createCancelMessage(currentSessionId, <<0, 0>>))
    /\ UNCHANGED <<currentSessionId, isProcessing, viewOpen, pending,
                   execs, currentAbortController, lastQuery, eventsRead>>

\* AIChatView.cancelExecution
cancelExecution ==
    /\ cancel
    /\ isProcessing' = FALSE
    /\ messages' = addMessage(messages, createCancelMessage(currentSessionId, <<0, 0>>))
    /\ UNCHANGED <<currentSessionId, viewOpen, pending,
                   execs, currentAbortController, lastQuery, eventsRead>>

\* The handleSendMessage calls that have passed the guard so far.
Started == Len(execs) + Len(pending)

\* The model's bounds: no more than maxExecs sends, maxEvents events.
CanSend(maxExecs) == isProcessing \/ Started < maxExecs
CanRead(maxEvents) == eventsRead < maxEvents

\* AIChatView.handleButtonClick: the send / cancel button, or Enter.
handleButtonClick(value, env) ==
    /\ UIReady
    /\ IF isProcessing THEN cancelExecution ELSE handleSendMessage(value, env)
    /\ UNCHANGED <<signals, vault, settings, processEnv>>
    /\ lastOp' = Op("handleButtonClick", TextKind(value), isProcessing)

\* Mutant of sendMessage: a prompt sent while the view is busy is queued.
sendMessage_queues(message, env) ==
    /\ UIReady
    /\ pending' =
          IF trim(message) = <<>>
          THEN pending
          ELSE Append(pending, [messageText |-> trim(message),
                                context |-> buildFinalMessage(env).context,
                                io |-> buildFinalMessage(env).io,
                                read |-> buildFinalMessage(env).read])
    /\ UNCHANGED <<view, adapter>>
    /\ UNCHANGED <<signals, vault, settings, processEnv>>
    /\ lastOp' = Op("sendMessage", TextKind(message), isProcessing)

\* AIChatView.sendMessage: a quick prompt from the command palette.
sendMessage(message, env) ==
    /\ UIReady
    /\ IF isProcessing
       THEN UNCHANGED <<view, pending, adapter>>
       ELSE handleSendMessage(message, env)
    /\ UNCHANGED <<signals, vault, settings, processEnv>>
    /\ lastOp' = Op("sendMessage", TextKind(message), isProcessing)

\* Mutant of startNewChat: the running turn is not cancelled.
startNewChat_noCancel ==
    /\ UIReady
    /\ currentSessionId' = Null
    /\ messages' = <<>>
    /\ UNCHANGED <<isProcessing, viewOpen, pending, adapter>>
    /\ UNCHANGED <<signals, vault, settings, processEnv>>
    /\ lastOp' = Op("startNewChat", "none", isProcessing)

\* AIChatView.startNewChat
startNewChat ==
    /\ UIReady
    /\ IF isProcessing THEN cancel ELSE UNCHANGED abortedCtrls
    /\ isProcessing' = FALSE
    /\ currentSessionId' = Null
    /\ messages' = <<>>
    /\ UNCHANGED <<viewOpen, pending, execs, currentAbortController, lastQuery, eventsRead>>
    /\ UNCHANGED <<signals, vault, settings, processEnv>>
    /\ lastOp' = Op("startNewChat", "none", isProcessing)

\* Mutant of onClose: the panel cancels as the cancel button does, whether
\* or not a turn is running.
onClose_cancelExecution ==
    /\ UIReady
    /\ cancel
    /\ isProcessing' = FALSE
    /\ messages' = addMessage(messages, createCancelMessage(currentSessionId, <<0, 0>>))
    /\ viewOpen' = FALSE
    /\ UNCHANGED <<currentSessionId, pending, execs, currentAbortController,
                   lastQuery, eventsRead>>
    /\ UNCHANGED <<signals, vault, settings, processEnv>>
    /\ lastOp' = Op("onClose", "none", isProcessing)

\* AIChatView.onClose
onClose ==
    /\ UIReady
    /\ IF isProcessing THEN cancel ELSE UNCHANGED abortedCtrls
    /\ viewOpen' = FALSE
    /\ UNCHANGED <<messages, currentSessionId, isProcessing, pending, execs,
                   currentAbortController, lastQuery, eventsRead>>
    /\ UNCHANGED <<signals, vault, settings, processEnv>>
    /\ lastOp' = Op("onClose", "none", isProcessing)

\* --------------------------------------------------- adapter: execute
RemoveAt(seq, i) == SubSeq(seq, 1, i - 1) \o SubSeq(seq, i + 1, Len(seq))

\* The record of an execute call when it reaches `for await`: where it is,
\* its sessionId option and its local activeSessionId, and as history the
\* events it read, whether it left the loop by `break`, the messages it
\* passed to onMessage, the callbacks it called and how it ended.
NewExec(sessionId) ==
    [pc |-> "streaming", sessionId |-> sessionId,
     activeSessionId |-> Or(sessionId, Null),
     events |-> <<>>, broke |-> FALSE, delivered |-> <<>>, calls |-> <<>>,
     outcome |-> "running"]

\* An execute call whose caller has resumed: its locals are gone.
DoneExec ==
    [pc |-> "done", sessionId |-> Null, activeSessionId |-> Null,
     events |-> <<>>, broke |-> FALSE, delivered |-> <<>>, calls |-> <<>>,
     outcome |-> "done"]

\* AgentService.configureApiKey: process.env after the call
configureApiKey(penv, s) ==
    IF s.apiKey # "" THEN [penv EXCEPT !.ANTHROPIC_API_KEY = s.apiKey]
    ELSE penv

\* options.signal as execute finds it: none supplied, one not yet aborted,
\* or one already aborted.  AIChatView.executeCommand supplies none.
NoSignal == "none"
SuppliedSignals == {NoSignal, "live", "aborted before"}

\* AIChatView.handleSendMessage from the await of buildFinalMessage to the
\* await of executeCommand, which runs AgentService.execute up to its
\* `for await`: a new AbortController, the query options, the query() call.
\* A send that waited for the vault resumes in a task of its own.
\* execute adds its 'abort' listener to the signal; a signal that is already
\* aborted dispatches no further 'abort' event.
handleSendMessageResume(i, signal) ==
    LET p == pending[i]
        e == Len(execs) + 1
    IN  /\ p.io => MicrotasksDrained
        /\ messages' = addMessage(messages,
                           createUserInputMessage(p.messageText, currentSessionId))
        /\ isProcessing' = TRUE
        /\ pending' = RemoveAt(pending, i)
        /\ currentAbortController' = e
        /\ execs' = Append(execs, NewExec(currentSessionId))
        /\ lastQuery' = [context |-> p.context,
                         resume |-> buildQueryOptions(currentSessionId)]
        /\ signals' = Append(signals, signal)
        /\ processEnv' = configureApiKey(processEnv, settings)
        /\ UNCHANGED <<vault, settings>>
        /\ UNCHANGED <<currentSessionId, viewOpen, abortedCtrls, eventsRead>>
        /\ lastOp' = Op("handleSendMessage", "none", FALSE)

\* The owner of the external signal of call e aborts it: the listener that
\* execute added runs this.currentAbortController?.abort().  The listener
\* is never removed, so it also runs after the call has resolved.
signalAbort(e) ==
    /\ MicrotasksDrained
    /\ signals[e] = "live"
    /\ signals' = [signals EXCEPT ![e] = "aborted after"]
    /\ UNCHANGED <<vault, settings, processEnv>>
    /\ cancel
    /\ UNCHANGED <<view, pending, execs, currentAbortController, lastQuery,
                   eventsRead>>
    /\ lastOp' = Op("signalAbort", "none", isProcessing)

\* execute: one turn of the `for await` loop on the event sdkMessage.
streamEvent(e, sdkMessage) ==
    LET x == execs[e]
        n == Len(x.events) + 1
        chatMessage == convertSDKMessage(sdkMessage, x.activeSessionId, <<e, n>>)
    IN  /\ x.pc = "streaming"
        /\ IF signalAborted
           THEN /\ execs' = [execs EXCEPT ![e] =
                      [x EXCEPT !.pc = "closing", !.broke = TRUE,
                                !.events = Append(@, sdkMessage)]]
                /\ UNCHANGED <<messages, currentSessionId>>
           ELSE /\ execs' = [execs EXCEPT ![e] =
                      [x EXCEPT !.events = Append(@, sdkMessage),
                                !.activeSessionId =
                                    nextActiveSessionId(sdkMessage, @),
                                !.delivered = @ \o chatMessage,
                                !.calls = IF chatMessage # <<>>
                                          THEN Append(@, "onMessage") ELSE @]]
                /\ IF chatMessage # <<>>
                   THEN /\ currentSessionId' =
                              onMessageSessionId(chatMessage[1], currentSessionId)
                        /\ messages' = addMessage(messages, chatMessage[1])
                   ELSE UNCHANGED <<messages, currentSessionId>>
        /\ eventsRead' = eventsRead + 1
        /\ UNCHANGED <<isProcessing, viewOpen, pending,
                       currentAbortController, abortedCtrls, lastQuery>>
        /\ UNCHANGED <<signals, vault, settings, processEnv>>
        /\ lastOp' = Op("streamEvent", "none", FALSE)

\* Mutant of executeReturn: onComplete is called after a natural end only.
executeReturn_completeAtEndOnly(e, outcome) ==
    /\ execs' = [execs EXCEPT ![e] =
           [@ EXCEPT !.pc = "returned", !.outcome = outcome,
                     !.calls = IF outcome = "end" THEN Append(@, "onComplete")
                               ELSE @]]
    /\ currentAbortController' = NoCtrl
    /\ UNCHANGED <<view, pending, abortedCtrls, lastQuery, eventsRead>>

\* execute: onComplete(); return activeSessionId; finally.
executeReturn(e, outcome) ==
    /\ execs' = [execs EXCEPT ![e] =
           [@ EXCEPT !.pc = "returned", !.outcome = outcome,
                     !.calls = Append(@, "onComplete")]]
    /\ currentAbortController' = NoCtrl
    /\ UNCHANGED <<view, pending, abortedCtrls, lastQuery, eventsRead>>

\* The stream ends: the loop exits normally.
streamEnd(e) ==
    /\ execs[e].pc = "streaming"
    /\ executeReturn(e, "end")
    /\ UNCHANGED <<signals, vault, settings, processEnv>>
    /\ lastOp' = Op("streamEnd", "none", FALSE)

\* After `break`, the iterator's return() has settled.
iteratorClosed(e) ==
    /\ execs[e].pc = "closing"
    /\ executeReturn(e, "break")
    /\ UNCHANGED <<signals, vault, settings, processEnv>>
    /\ lastOp' = Op("iteratorClosed", "none", FALSE)

\* Mutant of streamThrow: a failure after an abort forgets the session id.
streamThrow_losesSessionId(e, name) ==
    LET x == execs[e]
        cancelMessage == createCancelMessage(x.activeSessionId, <<e, 0>>)
    IN  /\ x.pc \in {"streaming", "closing"}
        /\ IF name = "AbortError"
           THEN /\ messages' = addMessage(messages, cancelMessage)
                /\ execs' = [execs EXCEPT ![e] =
                      [x EXCEPT !.pc = "returned", !.outcome = "abort",
                                !.activeSessionId = x.sessionId,
                                !.delivered = Append(@, cancelMessage),
                                !.calls = @ \o <<"onMessage", "onComplete">>]]
           ELSE /\ messages' = addMessage(messages,
                                          createErrorMessage(currentSessionId))
                /\ execs' = [execs EXCEPT ![e] =
                      [x EXCEPT !.pc = "returned", !.outcome = "error",
                                !.activeSessionId = x.sessionId,
                                !.calls = @ \o <<"onError", "onComplete">>]]
        /\ currentAbortController' = NoCtrl
        /\ UNCHANGED <<currentSessionId, isProcessing, viewOpen, pending,
                       abortedCtrls, lastQuery, eventsRead>>
        /\ UNCHANGED <<signals, vault, settings, processEnv>>
        /\ lastOp' = Op("streamThrow", "none", FALSE)

\* Mutant of streamThrow: an AbortError is reported through onError too.
streamThrow_abortIsError(e, name) ==
    LET x == execs[e]
        cancelMessage == createCancelMessage(x.activeSessionId, <<e, 0>>)
    IN  /\ x.pc \in {"streaming", "closing"}
        /\ IF name = "AbortError"
           THEN /\ messages' = addMessage(messages,
                                          createErrorMessage(currentSessionId))
                /\ execs' = [execs EXCEPT ![e] =
                      [x EXCEPT !.pc = "returned", !.outcome = "abort",
                                !.calls = @ \o <<"onError", "onComplete">>]]
           ELSE /\ messages' = addMessage(messages,
                                          createErrorMessage(currentSessionId))
                /\ execs' = [execs EXCEPT ![e] =
                      [x EXCEPT !.pc = "returned", !.outcome = "error",
                                !.calls = @ \o <<"onError", "onComplete">>]]
        /\ currentAbortController' = NoCtrl
        /\ UNCHANGED <<currentSessionId, isProcessing, viewOpen, pending,
                       abortedCtrls, lastQuery, eventsRead>>
        /\ UNCHANGED <<signals, vault, settings, processEnv>>
        /\ lastOp' = Op("streamThrow", "none", FALSE)

\* Mutant of streamThrow: a failure is swallowed without onError.
streamThrow_silentError(e, name) ==
    LET x == execs[e]
        cancelMessage == createCancelMessage(x.activeSessionId, <<e, 0>>)
    IN  /\ x.pc \in {"streaming", "closing"}
        /\ IF name = "AbortError"
           THEN /\ messages' = addMessage(messages, cancelMessage)
                /\ execs' = [execs EXCEPT ![e] =
                      [x EXCEPT !.pc = "returned", !.outcome = "abort",
                                !.delivered = Append(@, cancelMessage),
                                !.calls = @ \o <<"onMessage", "onComplete">>]]
           ELSE /\ messages' = messages
                /\ execs' = [execs EXCEPT ![e] =
                      [x EXCEPT !.pc = "returned", !.outcome = "error",
                                !.calls = @ \o <<"onComplete">>]]
        /\ currentAbortController' = NoCtrl
        /\ UNCHANGED <<currentSessionId, isProcessing, viewOpen, pending,
                       abortedCtrls, lastQuery, eventsRead>>
        /\ UNCHANGED <<signals, vault, settings, processEnv>>
        /\ lastOp' = Op("streamThrow", "none", FALSE)

\* The stream throws: catch, AgentService.handleError, onComplete, return,
\* finally.  name is the error's name.
streamThrow(e, name) ==
    LET x == execs[e]
        cancelMessage == createCancelMessage(x.activeSessionId, <<e, 0>>)
    IN  /\ x.pc \in {"streaming", "closing"}
        /\ IF name = "AbortError"
           THEN /\ messages' = addMessage(messages, cancelMessage)
                /\ execs' = [execs EXCEPT ![e] =
                      [x EXCEPT !.pc = "returned", !.outcome = "abort",
                                !.delivered = Append(@, cancelMessage),
                                !.calls = @ \o <<"onMessage", "onComplete">>]]
           ELSE /\ messages' = addMessage(messages,
                                          createErrorMessage(currentSessionId))
                /\ execs' = [execs EXCEPT ![e] =
                      [x EXCEPT !.pc = "returned", !.outcome = "error",
                                !.calls = @ \o <<"onError", "onComplete">>]]
        /\ currentAbortController' = NoCtrl
        /\ UNCHANGED <<currentSessionId, isProcessing, viewOpen, pending,
                       abortedCtrls, lastQuery, eventsRead>>
        /\ UNCHANGED <<signals, vault, settings, processEnv>>
        /\ lastOp' = Op("streamThrow", "none", FALSE)

\* Mutant of executeCommandResume: the view is marked idle only after a
\* turn that ended without an error.
executeCommandResume_busyAfterError(e) ==
    LET sessionId == execs[e].activeSessionId
    IN  /\ execs[e].pc = "returned"
        /\ currentSessionId' = IF sessionId # Null THEN sessionId
                               ELSE currentSessionId
        /\ isProcessing' = IF execs[e].outcome = "error" THEN isProcessing
                           ELSE FALSE
        /\ execs' = [execs EXCEPT ![e] = DoneExec]
        /\ UNCHANGED <<messages, viewOpen, pending, currentAbortController,
                       abortedCtrls, lastQuery, eventsRead>>
        /\ UNCHANGED <<signals, vault, settings, processEnv>>
        /\ lastOp' = Op("executeCommand", "none", FALSE)

\* executeCommand after its await of execute, then handleSendMessage after
\* its await of executeCommand.
executeCommandResume(e) ==
    LET sessionId == execs[e].activeSessionId
    IN  /\ execs[e].pc = "returned"
        /\ currentSessionId' = IF sessionId # Null THEN sessionId
                               ELSE currentSessionId
        /\ isProcessing' = FALSE
        /\ execs' = [execs EXCEPT ![e] = DoneExec]
        /\ UNCHANGED <<messages, viewOpen, pending, currentAbortController,
                       abortedCtrls, lastQuery, eventsRead>>
        /\ UNCHANGED <<signals, vault, settings, processEnv>>
        /\ lastOp' = Op("executeCommand", "none", FALSE)

\* ------------------------------------------------------- specification
Next ==
    \/ \E value \in Prompts, env \in FileEnvs :
          CanSend(MaxExecs) /\ handleButtonClick(value, env)
    \/ \E message \in Prompts, env \in FileEnvs :
          CanSend(MaxExecs) /\ sendMessage(message, env)
    \/ startNewChat
    \/ onClose
    \/ \E i \in 1..Len(pending) : handleSendMessageResume(i, NoSignal)
    \/ \E e \in 1..Len(execs), sdkMessage \in ControllerEvents :
          CanRead(MaxEvents) /\ streamEvent(e, sdkMessage)
    \/ \E e \in 1..Len(execs) : streamEnd(e)
    \/ \E e \in 1..Len(execs) : iteratorClosed(e)
    \/ \E e \in 1..Len(execs), name \in {"AbortError", "Error"} : streamThrow(e, name)
    \/ \E e \in 1..Len(execs) : executeCommandResume(e)

Spec == Init /\ [][Next]_vars

\* The stream specification: one turn and every kind of event.  It starts
\* in a new conversation, or in one whose first turn is over and has left a
\* session id, the user's message and the init message.
InitStream ==
    /\ currentSessionId \in SessionIds \cup {Null}
    /\ messages = IF currentSessionId = Null THEN <<>>
                  ELSE <<createUserInputMessage(<<"a">>, Null),
                         ChatMessage("system", "init", currentSessionId, <<>>,
                                     Null, FALSE, <<0, 1>>)>>
    /\ isProcessing = FALSE
    /\ viewOpen = TRUE
    /\ pending = <<>>
    /\ execs = <<>>
    /\ currentAbortController = NoCtrl
    /\ abortedCtrls = {}
    /\ lastQuery = [context |-> "none", resume |-> currentSessionId]
    /\ eventsRead = 0
    /\ signals = <<>>
    /\ vault = Vault(FALSE)
    /\ settings = [apiKey |-> ""]
    /\ processEnv = [ANTHROPIC_API_KEY |-> ""]
    /\ lastOp = Op("executeCommand", "none", FALSE)

NextStream ==
    \/ \E value \in Prompts, env \in FileEnvs :
          CanSend(MaxStreamExecs) /\ handleButtonClick(value, env)
    \/ startNewChat
    \/ \E i \in 1..Len(pending) : handleSendMessageResume(i, NoSignal)
    \/ \E e \in 1..Len(execs), sdkMessage \in StreamEvents :
          CanRead(MaxStreamEvents) /\ streamEvent(e, sdkMessage)
    \/ \E e \in 1..Len(execs) : streamEnd(e)
    \/ \E e \in 1..Len(execs) : iteratorClosed(e)
    \/ \E e \in 1..Len(execs), name \in {"AbortError", "Error"} : streamThrow(e, name)
    \/ \E e \in 1..Len(execs) : executeCommandResume(e)

SpecStream == InitStream /\ [][NextStream]_vars

\* Calls of execute that are given an external signal.
SignalEvents == {SDKEvent("assistant", Null, Null, <<Content>>, Null)}

NextSignal ==
    \/ \E env \in FileEnvs :
          CanSend(MaxSignalExecs) /\ handleButtonClick(<<" ", "a">>, env)
    \/ \E i \in 1..Len(pending), signal \in SuppliedSignals :
          handleSendMessageResume(i, signal)
    \/ \E e \in 1..Len(signals) : signalAbort(e)
    \/ \E e \in 1..Len(execs), sdkMessage \in SignalEvents :
          CanRead(MaxSignalEvents) /\ streamEvent(e, sdkMessage)
    \/ \E e \in 1..Len(execs) : streamEnd(e)
    \/ \E e \in 1..Len(execs) : iteratorClosed(e)
    \/ \E e \in 1..Len(execs), name \in {"AbortError", "Error"} : streamThrow(e, name)
    \/ \E e \in 1..Len(execs) : executeCommandResume(e)

SpecSignal == Init /\ [][NextSignal]_vars

\* ----------------------------------------------------------- settings
ApiKeys == {"", "K1", "K2"}

\* AIChatView.updateSettings, which calls AgentService.updateSettings: the
\* plugin passes on the settings the user has just changed.
updateSettings(apiKey) ==
    /\ MicrotasksDrained
    /\ settings' = [settings EXCEPT !.apiKey = apiKey]
    /\ UNCHANGED <<view, pending, adapter, signals, vault, processEnv>>
    /\ lastOp' = Op("updateSettings", "none", isProcessing)

NextSettings ==
    \/ \E env \in FileEnvs :
          CanSend(MaxSettingsExecs) /\ handleButtonClick(<<" ", "a">>, env)
    \/ \E i \in 1..Len(pending) : handleSendMessageResume(i, NoSignal)
    \/ \E apiKey \in ApiKeys : updateSettings(apiKey)
    \/ \E e \in 1..Len(execs) : streamEnd(e)
    \/ \E e \in 1..Len(execs) : iteratorClosed(e)
    \/ \E e \in 1..Len(execs), sdkMessage \in SignalEvents :
          CanRead(MaxSettingsEvents) /\ streamEvent(e, sdkMessage)
    \/ \E e \in 1..Len(execs) : executeCommandResume(e)

SpecSettings == Init /\ [][NextSettings]_vars

\* ------------------------------------------------------- file context
\* The environments in which the file's content is wanted: with or without
\* a selection, the read of the file succeeding or failing.
FileReadEnvs ==
    {FileEnv(TRUE, TRUE, TRUE, sel, hasSel, read) :
        sel \in BOOLEAN, hasSel \in BOOLEAN, read \in {"ok", "fail"}}

NextFile ==
    \/ \E value \in Prompts, env \in FileReadEnvs :
          CanSend(MaxFileExecs) /\ handleButtonClick(value, env)
    \/ \E i \in 1..Len(pending) : handleSendMessageResume(i, NoSignal)
    \/ startNewChat
    \/ \E e \in 1..Len(execs), sdkMessage \in ControllerEvents :
          CanRead(MaxFileEvents) /\ streamEvent(e, sdkMessage)
    \/ \E e \in 1..Len(execs) : streamEnd(e)
    \/ \E e \in 1..Len(execs) : iteratorClosed(e)
    \/ \E e \in 1..Len(execs) : executeCommandResume(e)

SpecFile == Init /\ [][NextFile]_vars

\* ------------------------------------------------------------- export
\* A document is a sequence of lines, a line a sequence of strings: <<>> is
\* the empty line, a text block is the line of its characters.  The date
\* and time of the header are left as the words "date" and "time", the
\* model name as "model"; a message of the model carries no duration.
Header(sessionId) ==
    <<<<"---">>, <<"date">>, <<"time">>, <<"model">>>>
    \o (IF sessionId # Null THEN <<<<"session_id", sessionId>>>> ELSE <<>>)
    \o <<<<"---">>, <<>>, <<"# AI Chat">>, <<>>>>

\* Mutant of Section: the result text is not looked at.
Section_anyResult(msg) ==
    CASE msg.type = "user" /\ msg.isUserInput ->
           <<<<"## User">>>> \o msg.message \o <<<<>>>>
      [] msg.type = "assistant" ->
           <<<<"## Assistant">>>> \o msg.message \o <<<<>>>>
      [] msg.type = "result" ->
           <<<<"## Result">>, <<msg.result>>, <<>>, <<>>>>
      [] OTHER -> <<>>

\* AIChatView.generateMarkdown: the lines of one message
Section(msg) ==
    CASE msg.type = "user" /\ msg.isUserInput ->
           <<<<"## User">>>> \o msg.message \o <<<<>>>>
      [] msg.type = "assistant" ->
           <<<<"## Assistant">>>> \o msg.message \o <<<<>>>>
      [] msg.type = "result" /\ msg.result # Null ->
           <<<<"## Result">>, <<msg.result>>, <<>>, <<>>>>
      [] OTHER -> <<>>

RECURSIVE Sections(_)
Sections(list) ==
    IF list = <<>> THEN <<>>
    ELSE Section(list[1]) \o Sections(SubSeq(list, 2, Len(list)))

\* AIChatView.generateMarkdown
generateMarkdown(list, sessionId) == Header(sessionId) \o Sections(list)

SaveCall(pc, markdown, from) == [pc |-> pc, markdown |-> markdown, from |-> from]

\* Mutant of saveConversation: an empty conversation is saved too.
saveConversation_savesEmpty ==
    /\ UIReady
    /\ vault' = [vault EXCEPT
          !.started = @ + 1,
          !.saves = Append(@,
              IF vault.folder
              THEN SaveCall("create", generateMarkdown(messages, currentSessionId),
                            messages)
              ELSE SaveCall("createFolder", <<>>, <<>>))]
    /\ UNCHANGED <<view, pending, adapter, signals, settings, processEnv>>
    /\ lastOp' = Op("saveConversation", "none", isProcessing)

\* AIChatView.saveConversation up to its first await: of createFolder when
\* the folder is missing, else of vault.create.
saveConversation ==
    /\ UIReady
    /\ IF messages = <<>>
       THEN UNCHANGED vault
       ELSE vault' = [vault EXCEPT
              !.started = @ + 1,
              !.saves = Append(@,
                  IF vault.folder
                  THEN SaveCall("create",
                                generateMarkdown(messages, currentSessionId),
                                messages)
                  ELSE SaveCall("createFolder", <<>>, <<>>))]
    /\ UNCHANGED <<view, pending, adapter, signals, settings, processEnv>>
    /\ lastOp' = Op("saveConversation", "none", isProcessing)

\* saveConversation after createFolder settled (ok: the folder was made;
\* a failure is swallowed), up to the await of vault.create.
saveConversationFolder(i, ok) ==
    /\ MicrotasksDrained
    /\ vault.saves[i].pc = "createFolder"
    /\ vault' = [vault EXCEPT
          !.folder = @ \/ ok,
          !.saves[i] = SaveCall("create",
                                generateMarkdown(messages, currentSessionId),
                                messages)]
    /\ UNCHANGED <<view, pending, adapter, signals, settings, processEnv>>
    /\ lastOp' = Op("saveConversationFolder", "none", isProcessing)

\* saveConversation after vault.create settled (ok: the file was made; a
\* failure is logged).  A file cannot be made in a missing folder.
saveConversationCreate(i, ok) ==
    /\ MicrotasksDrained
    /\ vault.saves[i].pc = "create"
    /\ ok => vault.folder
    /\ vault' = [vault EXCEPT
          !.files = IF ok THEN Append(@, [data |-> vault.saves[i].markdown,
                                          from |-> vault.saves[i].from])
                    ELSE @,
          !.saves = RemoveAt(@, i)]
    /\ UNCHANGED <<view, pending, adapter, signals, settings, processEnv>>
    /\ lastOp' = Op("saveConversationCreate", "none", isProcessing)

CanSave(maxSaves) == vault.started < maxSaves

\* The messages a conversation can hold, as the factory makes them.
ExportMessages ==
    {createUserInputMessage(<<"a">>, Null),
     createCancelMessage(Null, <<0, 0>>)}
    \cup {convertSDKMessage(ev, Null, <<1, 1>>)[1] :
             ev \in {SDKEvent("system", "init", "A", <<>>, Null),
                     SDKEvent("assistant", Null, Null, <<Content>>, Null),
                     SDKEvent("user", Null, Null, <<Content>>, Null),
                     SDKEvent("result", Null, Null, <<>>, "done"),
                     SDKEvent("result", "error", "B", <<>>, Null)}}

ExportLists == UNION {[1..k -> ExportMessages] : k \in 0..MaxExportLen}

InitExport ==
    /\ messages \in ExportLists
    /\ currentSessionId \in {Null, "A"}
    /\ isProcessing = FALSE
    /\ viewOpen = TRUE
    /\ pending = <<>>
    /\ execs = <<>>
    /\ currentAbortController = NoCtrl
    /\ abortedCtrls = {}
    /\ lastQuery = [context |-> "none", resume |-> Null]
    /\ eventsRead = 0
    /\ signals = <<>>
    /\ vault \in {Vault(FALSE), Vault(TRUE)}
    /\ settings = [apiKey |-> ""]
    /\ processEnv = [ANTHROPIC_API_KEY |-> ""]
    /\ lastOp = Op("onOpen", "none", FALSE)

NextExport ==
    \/ CanSave(MaxSaves) /\ saveConversation
    \/ \E i \in 1..Len(vault.saves), ok \in BOOLEAN : saveConversationFolder(i, ok)
    \/ \E i \in 1..Len(vault.saves), ok \in BOOLEAN : saveConversationCreate(i, ok)
    \/ startNewChat

SpecExport == InitExport /\ [][NextExport]_vars

\* The continuation of a resolved execute call is a microtask: it runs.
Fairness == WF_vars(\E e \in 1..Len(execs) : executeCommandResume(e))

SpecLive == Init /\ [][Next]_vars /\ Fairness

\* ------------------------------------------------------------ properties
Execs == 1..Len(execs)
InFlightExecs == {e \in Execs : InFlight(e)}

\* The messages execute passed to onMessage that it made from a backend
\* event (a synthesized message has index 0).
EventMessages(x) == SelectSeq(x.delivered, LAMBDA m : m.uuid[2] # 0)

IsInit(m) == m.type = "system" /\ m.subtype = "init"

\* C1: at most one AgentService.execute call is in flight (started and not
\* resolved) at any time.
C1_AtMostOneInFlight == Cardinality(InFlightExecs) <= 1

\* C2: once cancellation has been requested for an in-flight execution (its
\* AbortController is aborted), onMessage is never again invoked with a
\* message made from an event of that execution.
C2_CancelledStreamIsSilent ==
    [][\A e \in Execs :
         (e \in abortedCtrls /\ execs'[e].pc # "done")
            => EventMessages(execs'[e]) = EventMessages(execs[e])]_vars

C4_NewConversationResets ==
    [][lastOp'.op = "startNewChat" =>
         /\ ~isProcessing' /\ currentSessionId' = Null /\ messages' = <<>>
         /\ isProcessing =>
               /\ currentAbortController \in InFlightExecs
               /\ currentAbortController \in abortedCtrls']_vars

\* C4 witness: startNewChat ran while a turn was being processed.
C4_Witness ==
    /\ lastOp.op = "startNewChat" /\ lastOp.busy
    /\ \E e \in InFlightExecs : e \in abortedCtrls

\* C5: the cancel button pressed while busy, in that one step and without
\* any stream event being read, aborts the controller of an in-flight
\* execute call, sets the view idle and appends exactly one cancellation
\* message.
C5_CancelWhileBusy ==
    [][(lastOp'.op = "handleButtonClick" /\ isProcessing) =>
         /\ ~isProcessing'
         /\ currentAbortController \in InFlightExecs
         /\ currentAbortController \in abortedCtrls'
         /\ Len(messages') = Len(messages) + 1
         /\ SubSeq(messages', 1, Len(messages)) = messages
         /\ messages'[Len(messages')].type = "system"
         /\ messages'[Len(messages')].result = "cancelled"
         /\ UNCHANGED <<execs, eventsRead, currentSessionId>>]_vars

\* C5 witness: the button was pressed while busy and the cancelled call is
\* still waiting for its stream.
C5_Witness ==
    /\ lastOp.op = "handleButtonClick" /\ lastOp.busy
    /\ \E e \in InFlightExecs : e \in abortedCtrls /\ execs[e].pc = "streaming"

\* C6: a cancel request made while the view is idle (the panel is closed, or
\* the send / cancel button is pressed) cancels nothing: no message is
\* appended, no controller is aborted, the session id and the idle state stay.
C6_IdleCancelIsNoOp ==
    [][(~isProcessing /\ lastOp'.op \in {"onClose", "handleButtonClick"}) =>
         UNCHANGED <<messages, currentSessionId, isProcessing, abortedCtrls>>]_vars

\* C6 witness: the panel was closed while idle, with a conversation on screen.
C6_Witness ==
    lastOp.op = "onClose" /\ ~lastOp.busy /\ messages # <<>>

\* C7: sendMessage while the view is busy changes nothing: no message, no
\* queued send, no execute call.
C7_BusySubmitIgnored ==
    [][(isProcessing /\ lastOp'.op = "sendMessage") =>
         UNCHANGED <<messages, currentSessionId, isProcessing, pending, execs,
                     currentAbortController, abortedCtrls, lastQuery>>]_vars

\* C7 witness: a prompt with text was sent while the view was busy.
C7_Witness ==
    lastOp.op = "sendMessage" /\ lastOp.busy /\ lastOp.text = "text"

\* C8: a send whose text is empty or blank appends no message, does not mark
\* the view busy, and leaves no send waiting and no execute call started.
C8_BlankSubmitIgnored ==
    [][(/\ lastOp'.text \in {"empty", "blank"}
        /\ \/ lastOp'.op = "sendMessage"
           \/ lastOp'.op = "handleButtonClick" /\ ~isProcessing) =>
         UNCHANGED <<messages, currentSessionId, isProcessing, pending, execs,
                     currentAbortController, lastQuery>>]_vars

\* C8 witness: the send button was pressed on a text of blanks while idle.
C8_Witness ==
    lastOp.op = "handleButtonClick" /\ lastOp.text = "blank" /\ ~lastOp.busy

\* The event kinds of the backend protocol that map to a ChatMessage.
Mappable(ev) ==
    \/ ev.type = "system" /\ ev.subtype = "init"
    \/ ev.type \in {"assistant", "user"} /\ ev.message # <<>>
    \/ ev.type = "result"

\* The events the loop of call x has processed: all it has read but the one
\* on which it found the abort requested.
Processed(x) ==
    IF x.broke THEN SubSeq(x.events, 1, Len(x.events) - 1) ELSE x.events

MappableAt(evs) == {i \in 1..Len(evs) : Mappable(evs[i])}

\* The k-th smallest member of the set S of numbers.
Kth(S, k) == CHOOSE i \in S : Cardinality({j \in S : j < i}) = k - 1

\* The messages of the view's list that call e made from backend events.
ListedOf(e) == SelectSeq(messages, LAMBDA m : m.uuid[1] = e /\ m.uuid[2] # 0)

\* C9, state part: for each execute call, the messages passed to onMessage
\* from backend events are exactly the mappable events it has processed, in
\* arrival order, each made from its event; those of them on the view's
\* list (all since the list was last cleared) are there in the same order.
C9_MappableInOrder ==
    \A e \in Execs :
       execs[e].pc # "done" =>
          LET p == Processed(execs[e])
              em == EventMessages(execs[e])
              mine == ListedOf(e)
          IN  /\ Len(em) = Cardinality(MappableAt(p))
              /\ \A k \in 1..Len(em) :
                    LET i == Kth(MappableAt(p), k) IN
                    /\ em[k].uuid = <<e, i>>
                    /\ em[k].type = p[i].type
                    /\ em[k].message = p[i].message
                    /\ em[k].result = p[i].result
              /\ Len(mine) <= Len(em)
              /\ mine = SubSeq(em, Len(em) - Len(mine) + 1, Len(em))

\* C9, step part: reading a mappable event appends its message at the end
\* of the view's list; reading an unmappable event changes no list and
\* leaves the call reading its stream.
C9_StepAppends ==
    [][\A e \in Execs :
         (Len(execs'[e].events) > Len(execs[e].events) /\ ~execs'[e].broke) =>
            LET ev == execs'[e].events[Len(execs'[e].events)] IN
            /\ execs'[e].pc = "streaming"
            /\ IF Mappable(ev)
               THEN /\ Len(messages') = Len(messages) + 1
                    /\ SubSeq(messages', 1, Len(messages)) = messages
                    /\ messages'[Len(messages')] =
                          execs'[e].delivered[Len(execs'[e].delivered)]
                    /\ execs'[e].calls = Append(execs[e].calls, "onMessage")
               ELSE /\ messages' = messages
                    /\ execs'[e].delivered = execs[e].delivered
                    /\ execs'[e].calls = execs[e].calls]_vars

\* C9: the messages passed to onMessage and appended to the view's list are
\* exactly the mappable events in arrival order; an unmappable event makes
\* no message, does not end the stream and does not disturb its neighbours.
C9_EventsToMessages == []C9_MappableInOrder /\ C9_StepAppends

\* C9 witness: a call has read a mappable, an unmappable and a mappable
\* event, is still reading, and the view lists the two messages.
C9_Witness ==
    \E e \in Execs :
       LET x == execs[e] IN
       /\ x.pc = "streaming" /\ ~x.broke /\ Len(x.events) = 3
       /\ Mappable(x.events[1]) /\ ~Mappable(x.events[2]) /\ Mappable(x.events[3])
       /\ Len(EventMessages(x)) = 2
       /\ ListedOf(e) = EventMessages(x)

\* The init events of evs that carry a session id.
InitsWithId(evs) ==
    {i \in 1..Len(evs) : /\ evs[i].type = "system" /\ evs[i].subtype = "init"
                         /\ evs[i].session_id # Null}

FirstInitSid(evs, sessionId) ==
    IF InitsWithId(evs) = {} THEN sessionId
    ELSE evs[Kth(InitsWithId(evs), 1)].session_id

LastInitSid(evs, sessionId) ==
    IF InitsWithId(evs) = {} THEN sessionId
    ELSE evs[Kth(InitsWithId(evs), Cardinality(InitsWithId(evs)))].session_id

NaturalEnd(e) == execs[e].pc = "returned" /\ execs[e].outcome = "end"

\* C10 as claimed: when the stream ends naturally, execute has called
\* onComplete last and once, and resolves with the session id of the first
\* init event seen during the call, or with its input session id if no init
\* event arrived.
C10_ResolvesWithFirstInit ==
    \A e \in Execs :
       NaturalEnd(e) =>
          /\ execs[e].calls[Len(execs[e].calls)] = "onComplete"
          /\ execs[e].activeSessionId =
                FirstInitSid(execs[e].events, execs[e].sessionId)

\* C10 as amended: when the stream ends naturally, execute has called
\* onComplete last and once, after one onMessage per mappable event, and
\* resolves with the session id of the last init event of the call that
\* carries one, or with its input session id if there was none.
C10_ResolvesWithLastInit ==
    \A e \in Execs :
       NaturalEnd(e) =>
          LET calls == execs[e].calls IN
          /\ calls[Len(calls)] = "onComplete"
          /\ \A k \in 1..(Len(calls) - 1) : calls[k] = "onMessage"
          /\ Len(calls) - 1 = Cardinality(MappableAt(execs[e].events))
          /\ execs[e].activeSessionId =
                LastInitSid(execs[e].events, execs[e].sessionId)

\* C10 witness: the events init "A", assistant, result, read by a call with
\* a null input session id, then the end of the stream: three messages of
\* kinds system, assistant, result, and the call resolves with "A".
C10_Witness ==
    \E e \in Execs :
       LET x == execs[e] IN
       /\ NaturalEnd(e) /\ x.sessionId = Null
       /\ x.events = <<SDKEvent("system", "init", "A", <<>>, Null),
                       SDKEvent("assistant", Null, Null, <<Content>>, Null),
                       SDKEvent("result", Null, Null, <<>>, "done")>>
       /\ [k \in 1..Len(x.delivered) |-> x.delivered[k].type] =
             <<"system", "assistant", "result">>
       /\ x.activeSessionId = "A"

\* The call e has just left its stream by an exception.
Threw(e) ==
    /\ lastOp'.op = "streamThrow"
    /\ execs[e].pc \in {"streaming", "closing"}
    /\ execs'[e].pc # execs[e].pc

\* C11: when the stream throws after the call's abort was requested, execute
\* does not reject: it returns, its last callback is onComplete, and it
\* resolves with the session id it held before the failure.
C11_ThrowAfterCancelResolves ==
    [][\A e \in Execs :
         (Threw(e) /\ e \in abortedCtrls) =>
            /\ execs'[e].pc = "returned"
            /\ execs'[e].calls[Len(execs'[e].calls)] = "onComplete"
            /\ Len(SelectSeq(execs'[e].calls, LAMBDA c : c = "onComplete")) = 1
            /\ execs'[e].activeSessionId = execs[e].activeSessionId]_vars

\* C11 witness: a call that had captured a session id from an init event was
\* aborted, its stream threw, and it resolved with that id.
C11_Witness ==
    \E e \in Execs :
       /\ lastOp.op = "streamThrow" /\ e \in abortedCtrls
       /\ execs[e].pc = "returned"
       /\ execs[e].sessionId = Null /\ execs[e].activeSessionId \in SessionIds

C13_FailureIsReported ==
    [][/\ \A e \in Execs :
            (Threw(e) /\ execs'[e].outcome = "error") =>
               /\ execs'[e].pc = "returned"
               /\ execs'[e].calls = execs[e].calls \o <<"onError", "onComplete">>
               /\ execs'[e].delivered = execs[e].delivered
               /\ execs'[e].activeSessionId = execs[e].activeSessionId
               /\ Len(messages') = Len(messages) + 1
               /\ SubSeq(messages', 1, Len(messages)) = messages
               /\ messages'[Len(messages')].type = "system"
               /\ messages'[Len(messages')].result = "error"
               /\ currentSessionId' = currentSessionId
               /\ Len(execs') = Len(execs)
               /\ UNCHANGED <<pending, lastQuery>>
       /\ \A e \in Execs :
            (execs[e].pc = "returned" /\ execs[e].outcome = "error"
             /\ execs'[e].pc = "done") =>
               /\ currentSessionId # Null => currentSessionId' # Null
               /\ Len(execs') = Len(execs)
               /\ UNCHANGED <<messages, pending, lastQuery>>]_vars

\* C13 witness: a turn that had established a session id failed, and its
\* caller has resumed with the error message on the list.
C13_Witness ==
    /\ lastOp.op = "executeCommand"
    /\ currentSessionId \in SessionIds
    /\ ~isProcessing
    /\ messages # <<>>
    /\ messages[Len(messages)].result = "error"

\* C14: whenever an execute call has resolved (after a natural end, a
\* failure or a cancellation), its caller eventually resumes and the view is
\* idle.
C14_ResolvedLeadsToIdle ==
    \A e \in 1..MaxExecs :
       (e \in Execs /\ execs[e].pc = "returned")
          ~> (e \in Execs /\ execs[e].pc = "done" /\ ~isProcessing)

\* C14 witness: a call has resolved after a failure of its stream while the
\* view is still busy.
C14_Witness ==
    \E e \in Execs :
       /\ execs[e].pc = "returned" /\ execs[e].outcome = "error"
       /\ isProcessing

\* The external signal given to call e is aborted.
ExternalAborted(e) == signals[e] \in {"aborted before", "aborted after"}

\* C15: once the external signal given to an execute call is aborted (be it
\* before the call started), onMessage is never again invoked with a message
\* made from an event of that call; and the abort of a call's external
\* signal aborts no other call's controller.
C15_ExternalSignalStopsItsCall ==
    [][/\ \A e \in Execs :
            (ExternalAborted(e) /\ execs'[e].pc # "done")
               => EventMessages(execs'[e]) = EventMessages(execs[e])
       /\ \A e \in Execs :
            (signals[e] = "live" /\ signals'[e] = "aborted after")
               => abortedCtrls' \subseteq abortedCtrls \cup {e}]_vars

\* C16: saveConversation called with an empty message list writes nothing
\* (no folder, no file, no write begun) and changes no state of the view or
\* of the adapter.
C16_EmptyExportWritesNothing ==
    [][(lastOp'.op = "saveConversation" /\ messages = <<>>) =>
         UNCHANGED <<view, pending, adapter, signals, vault>>]_vars

\* C16 witness: saveConversation ran on an empty list in a vault without
\* the save folder, and there is still no folder, no file and no write.
C16_Witness ==
    /\ lastOp.op = "saveConversation" /\ messages = <<>>
    /\ ~vault.folder /\ vault.files = <<>> /\ vault.saves = <<>>

SectionHeaders == {<<"## User">>, <<"## Assistant">>, <<"## Result">>}

\* The section headers of a document, in order.
HeadersOf(data) == SelectSeq(data, LAMBDA line : line \in SectionHeaders)

HeaderFor(msg) ==
    CASE msg.type = "user" -> <<"## User">>
      [] msg.type = "assistant" -> <<"## Assistant">>
      [] msg.type = "result" -> <<"## Result">>

HasLine(data, line) == \E k \in 1..Len(data) : data[k] = line

\* The headers of the messages of list that satisfy Shown, in list order.
HeadersFor(list, Shown(_)) ==
    LET shown == SelectSeq(list, Shown)
    IN  [k \in 1..Len(shown) |-> HeaderFor(shown[k])]

IsSectionKind(msg) == msg.type \in {"user", "assistant", "result"}

\* The messages the export gives a section: user-authored ones, assistant
\* ones, and result ones with a result text.
IsExported(msg) ==
    \/ msg.type = "user" /\ msg.isUserInput
    \/ msg.type = "assistant"
    \/ msg.type = "result" /\ msg.result # Null

\* C17 as claimed: a document made from a list with a user message and a
\* result message has a "User" and a "Result" section, and its sections are
\* in the order of the list's user, assistant and result messages.
C17_UserAndResultSections ==
    \A k \in 1..Len(vault.files) :
       LET f == vault.files[k] IN
       (/\ \E j \in 1..Len(f.from) : f.from[j].type = "user"
        /\ \E j \in 1..Len(f.from) : f.from[j].type = "result") =>
          /\ HasLine(f.data, <<"## User">>)
          /\ HasLine(f.data, <<"## Result">>)
          /\ HeadersOf(f.data) = HeadersFor(f.from, IsSectionKind)

\* C17 as amended: a document made from a list with a user-authored message
\* and a result message that has a result text has a "User" and a "Result"
\* section; its sections are, in list order, those of the user-authored
\* messages, the assistant messages and the result messages with a text.
C17_AuthoredAndTextSections ==
    \A k \in 1..Len(vault.files) :
       LET f == vault.files[k] IN
       (/\ \E j \in 1..Len(f.from) : f.from[j].type = "user" /\ f.from[j].isUserInput
        /\ \E j \in 1..Len(f.from) : f.from[j].type = "result" /\ f.from[j].result # Null) =>
          /\ HasLine(f.data, <<"## User">>)
          /\ HasLine(f.data, <<"## Result">>)
          /\ HeadersOf(f.data) = HeadersFor(f.from, IsExported)

\* C17 witness: a document was made from a user-authored message, a result
\* without a text and a result with a text.
C17_Witness ==
    \E k \in 1..Len(vault.files) :
       LET f == vault.files[k] IN
       /\ Len(f.from) = 3
       /\ f.from[1].type = "user" /\ f.from[1].isUserInput
       /\ f.from[2].type = "result" /\ f.from[2].result = Null
       /\ f.from[3].type = "result" /\ f.from[3].result # Null
       /\ HeadersOf(f.data) = <<<<"## User">>, <<"## Result">>>>

\* The call e has just processed an event (read it without breaking).
ProcessedEvent(e) ==
    Len(execs'[e].events) > Len(execs[e].events) /\ ~execs'[e].broke

\* What the mapping table makes of the event ev, given the message list
\* new (empty or of one message) that the call passed on for it.
FollowsTable(ev, new) ==
    CASE ev.type = "system" ->
           /\ new # <<>> <=> ev.subtype = "init"
           /\ new # <<>> => new[1].type = "system" /\ new[1].subtype = "init"
      [] ev.type \in {"assistant", "user"} ->
           /\ new # <<>> <=> ev.message # <<>>
           /\ new # <<>> => new[1].type = ev.type /\ new[1].message = ev.message
      [] ev.type = "result" ->
           /\ new # <<>>
           /\ new[1].type = "result"
           /\ new[1].subtype = (IF ev.subtype = Null THEN "success" ELSE ev.subtype)
           /\ new[1].result = ev.result
      [] OTHER -> new = <<>>

\* C18: every event a call processes is normalized by the mapping table: a
\* system event gives a system/init message iff its subtype is init; an
\* assistant or user event a message of its kind iff it has a payload; a
\* result event always a result message, of subtype success by default; any
\* other event nothing.
C18_NormalizationTable ==
    [][\A e \in Execs :
         ProcessedEvent(e) =>
            LET ev == execs'[e].events[Len(execs'[e].events)]
                new == SubSeq(execs'[e].delivered, Len(execs[e].delivered) + 1,
                              Len(execs'[e].delivered))
            IN  Len(new) <= 1 /\ FollowsTable(ev, new)]_vars

\* C18 witness: a call has processed an event of an unknown type, a system
\* event that is not init, and a result event without a subtype, and has
\* passed on one message, a result of subtype success.
C18_Witness ==
    \E e \in Execs :
       LET x == execs[e] IN
       /\ Len(x.events) = 3 /\ ~x.broke
       /\ x.events[1].type = "stream_event"
       /\ x.events[2].type = "system" /\ x.events[2].subtype = Null
       /\ x.events[3].type = "result" /\ x.events[3].subtype = Null
       /\ Len(x.delivered) = 1
       /\ x.delivered[1].type = "result" /\ x.delivered[1].subtype = "success"

\* C19: after onClose the view's session id is null and its message list is
\* empty; and if it was busy, the abort of the current call was requested
\* and the view is idle.
C19_CloseDestroysSession ==
    [][lastOp'.op = "onClose" =>
         /\ currentSessionId' = Null
         /\ messages' = <<>>
         /\ isProcessing =>
               /\ ~isProcessing'
               /\ currentAbortController \in abortedCtrls']_vars

\* C20: each query() call started by a send carries as its resume directive
\* the view's session id of that moment when it is not null, and none (null)
\* when it is null; the call's input session id is the same.
C20_ResumeIsCurrentSession ==
    [][lastOp'.op = "handleSendMessage" =>
         /\ Len(execs') = Len(execs) + 1
         /\ execs'[Len(execs')].sessionId = currentSessionId
         /\ lastQuery'.resume =
               (IF currentSessionId # Null THEN currentSessionId ELSE Null)
         /\ currentSessionId' = currentSessionId]_vars

\* C20 witness: a second turn has started after the first turn completed,
\* and it resumes the session id that the first turn established.
C20_Witness ==
    /\ lastOp.op = "handleSendMessage"
    /\ Len(execs) = 2 /\ execs[1].pc = "done"
    /\ execs[2].sessionId \in SessionIds
    /\ lastQuery.resume = execs[2].sessionId
    /\ \E k \in 1..Len(messages) :
          IsInit(messages[k]) /\ messages[k].session_id = lastQuery.resume

ControllerOps == {"handleButtonClick", "sendMessage", "startNewChat"}

\* C21: a send that passed its guard appends one user-authored message and
\* starts one execute call when it goes on; and between its guard and the
\* view being marked busy, no send, cancel or new chat takes effect.
C21_SubmitIsAtomic ==
    [][/\ lastOp'.op = "handleSendMessage" =>
            /\ Len(messages') = Len(messages) + 1
            /\ messages'[Len(messages')].type = "user"
            /\ messages'[Len(messages')].isUserInput
            /\ Len(execs') = Len(execs) + 1
            /\ isProcessing'
       /\ (pending # <<>> /\ lastOp'.op \in ControllerOps) =>
            UNCHANGED <<view, pending, adapter>>]_vars

\* C22: when an execute call issues its query, process.env's
\* ANTHROPIC_API_KEY equals the apiKey of the adapter's settings.
C22_CredentialIsCurrentKey ==
    [][lastOp'.op = "handleSendMessage" =>
         processEnv'.ANTHROPIC_API_KEY = settings.apiKey]_vars

\* The send that has just gone on after its await of buildFinalMessage had
\* asked for the file's content and the read had failed.
ResumedAfterFailedRead ==
    /\ lastOp'.op = "handleSendMessage"
    /\ \E i \in 1..Len(pending) :
          pending' = RemoveAt(pending, i) /\ pending[i].read = "fail"

\* C23: a send whose read of the active file failed goes on all the same:
\* it appends its user message, marks the view busy and starts one execute
\* call, whose prompt has the file's path and not its content.
C23_FailedReadStillSends ==
    [][ResumedAfterFailedRead =>
         /\ Len(messages') = Len(messages) + 1
         /\ SubSeq(messages', 1, Len(messages)) = messages
         /\ messages'[Len(messages')].type = "user"
         /\ messages'[Len(messages')].isUserInput
         /\ isProcessing'
         /\ Len(execs') = Len(execs) + 1
         /\ execs'[Len(execs')].pc = "streaming"
         /\ lastQuery'.context = "path"]_vars

\* C23 witness: a send made with the file's content wanted has started its
\* call with the path alone, the view busy and the user message listed.
C23_Witness ==
    /\ lastOp.op = "handleSendMessage"
    /\ lastQuery.context = "path"
    /\ isProcessing
    /\ Len(execs) = 1 /\ execs[1].pc = "streaming"
    /\ Len(messages) = 1 /\ messages[1].isUserInput

\* The steps of an execute call and of its caller's continuation.
TurnOps == {"streamEvent", "streamEnd", "iteratorClosed", "streamThrow",
            "executeCommand"}

\* C24: a conversation that startNewChat has cleared (null session id, empty
\* list: no send has gone on since) stays so through every later step of
\* the turns started before: an event read, a failure, the end of a stream,
\* the resumption of the caller.
C24_NewConversationStaysClean ==
    [][(currentSessionId = Null /\ messages = <<>> /\ lastOp'.op \in TurnOps)
          => (currentSessionId' = Null /\ messages' = <<>>)]_vars

\* The execute call started last is in flight and its abort has not been
\* requested.
LastTurnRunning ==
    /\ execs # <<>>
    /\ InFlight(Len(execs))
    /\ Len(execs) \notin abortedCtrls

\* C25: while the call started last is in flight and not cancelled, the view
\* is busy, and the resumption of the caller of an earlier call changes
\* neither that nor the view's session id.
C25_LateCompletionIsHarmless ==
    /\ [](LastTurnRunning => isProcessing)
    /\ [][(LastTurnRunning /\ lastOp'.op = "executeCommand")
             => UNCHANGED <<isProcessing, currentSessionId>>]_vars

\* C26: when the view is busy with a call in flight, the adapter's
\* controller is that of a call in flight; a call that resolves clears no
\* controller but its own; and a call whose controller was aborted stops at
\* the next event it reads, whatever calls have started since.
C26_HandleBelongsToItsCall ==
    /\ []((isProcessing /\ MicrotasksDrained /\ InFlightExecs # {})
             => currentAbortController \in InFlightExecs)
    /\ [][\A e \in Execs :
            /\ (execs[e].pc # "returned" /\ execs'[e].pc = "returned"
                /\ currentAbortController \notin {e, NoCtrl})
                  => currentAbortController' = currentAbortController
            /\ (e \in abortedCtrls /\ Len(execs'[e].events) > Len(execs[e].events))
                  => execs'[e].broke]_vars

CountOf(calls, name) == Len(SelectSeq(calls, LAMBDA c : c = name))

\* C27: an execute call that has resolved (after a natural end, a break, an
\* AbortError or another error) has called onComplete exactly once, as its
\* last callback; a call that has not resolved has not called it.
C27_OnCompleteOnceAndLast ==
    \A e \in Execs :
       LET calls == execs[e].calls IN
       /\ execs[e].pc = "returned" =>
             /\ execs[e].outcome \in {"end", "break", "abort", "error"}
             /\ calls # <<>>
             /\ calls[Len(calls)] = "onComplete"
             /\ CountOf(calls, "onComplete") = 1
             /\ CountOf(calls, "onError") =
                   (IF execs[e].outcome = "error" THEN 1 ELSE 0)
       /\ InFlight(e) => CountOf(calls, "onComplete") = 0

\* C27 witness: a call that passed on a message, was cancelled and broke
\* out of its loop has resolved, with onComplete after onMessage.
C27_Witness ==
    \E e \in Execs :
       /\ execs[e].pc = "returned" /\ execs[e].outcome = "break"
       /\ execs[e].calls = <<"onMessage", "onComplete">>

\* C28: the view's session id is never the placeholder id that the factory
\* stamps on a message whose event carries no session id, and no query()
\* call resumes that placeholder.
C28_PlaceholderNeverAdopted ==
    /\ currentSessionId # Placeholder
    /\ lastQuery.resume # Placeholder
    /\ \A e \in Execs : execs[e].sessionId # Placeholder
====
